---- MODULE Spec2Model ----
(***************************************************************************)
(* Model of the Redix MCP server: the Transport Adapter (api_client.py),   *)
(* the Decision Record Builder (response.py), the two compliance gates     *)
(* (gates.py) and the twelve tools (server.py).                            *)
(*                                                                         *)
(* Spec: one tool invocation runs at a time (a run of MaxCalls sequential  *)
(* calls).  Every `await` of a remote call is a step boundary: an action   *)
(* is the code between two awaits, and the HTTP exchange's outcome is the  *)
(* action's input.  Concurrent: NProcs invocations interleave at their     *)
(* awaits on one event loop, sharing the module-level client.  Pure: one   *)
(* function of the code is applied to inputs drawn from bounded sets.      *)
(*                                                                         *)
(* Python values: Optional[T] is a sequence of length <= 1 (None is <<>>), *)
(* a dict is a function over its keys, a list is a sequence.  Ruling texts *)
(* are modelled by their literal prefix (the f-string's fixed part);       *)
(* the timestamp field of a record is not modelled.                        *)
(***************************************************************************)
EXTENDS Integers, Sequences, FiniteSets, TLC

VARIABLES
    pc,          \* where the current invocation stands
    tool, args,  \* the tool called and its arguments
    requests,    \* the remote calls the invocation has issued, in order
    exchanges,   \* the HTTP exchange of each completed call, as the remote played it
    results,     \* what the adapter gave back for each completed call
    blocked,     \* the local `blocked`: Gate 1's verdict
    gate5,       \* the local `gate5`: Gate 5's verdict, as the gate built it
    x12_output,  \* the local `x12_output`
    manifest,    \* the local `manifest` of list_supported_formats
    ret,         \* the record handed to the caller
    nextId,      \* the next fresh correlation token
    ncalls,      \* invocations started in this run
    ids,         \* the transaction_id of every record returned in this run
    client,      \* the module-level RedixAPIClient: base_url, api_key, timeout
    calls,       \* the locals of each concurrent invocation (Concurrent only)
    probe        \* one function applied to drawn inputs (Pure only)

vars == <<pc, tool, args, requests, exchanges, results, blocked, gate5, x12_output, manifest,
          ret, nextId, ncalls, ids, client, calls, probe>>

\* Number of sequential tool invocations in one run.
MaxCalls == 2
\* Number of concurrent tool invocations.
NProcs == 2
Procs == 1..NProcs

(***************************************************************************)
(* Python values                                                           *)
(***************************************************************************)
None == <<>>
Some(v) == <<v>>
EmptyDict == [k \in {} |-> TRUE]

\* dict.get(k): None when the key is absent.
Get(d, k) == IF k \in DOMAIN d THEN <<d[k]>> ELSE None
\* dict.get(k, default)
GetD(d, k, default) == IF k \in DOMAIN d THEN d[k] ELSE default
\* Truthiness of an Optional[str], of an Optional[dict], of an Optional[list].
TruthyStr(o) == o # None /\ o[1] # ""
TruthyDict(o) == o # None /\ DOMAIN o[1] # {}
TruthyList(o) == o # None /\ o[1] # <<>>
\* A dict with the optional key k: absent, or one of the values V.
Opt(k, V) == {EmptyDict} \cup {k :> v : v \in V}

(***************************************************************************)
(* The remote engine: the outcome of one HTTP exchange.                    *)
(*   err:    "RequestError" (connect failure, timeout, DNS) or "none"      *)
(*   status: the HTTP status (0 when there is no response)                 *)
(*   ctype:  the response's content-type                                   *)
(*   kind:   what the body holds: a JSON object, a JSON array, text that   *)
(*           is not JSON ("invalid"), or plain text                        *)
(***************************************************************************)
Exchange(err, status, ctype, kind, obj) ==
    [err |-> err, status |-> status, ctype |-> ctype, kind |-> kind, obj |-> obj]

\* The outcomes that carry no JSON object, for any endpoint.
PlainOutcomes ==
    { Exchange("RequestError", 0, "", "text", EmptyDict),
      Exchange("none", 500, "text/plain", "text", EmptyDict),
      Exchange("none", 200, "text/plain", "text", EmptyDict),
      Exchange("none", 200, "application/json", "array", EmptyDict),
      Exchange("none", 200, "application/json", "invalid", EmptyDict) }

Outcomes(bodies) ==
    PlainOutcomes \cup
    { Exchange("none", 200, "application/json", "object", b) : b \in bodies }

\* Validation endpoint responses (spec section 6): validation_status and the
\* errors object are each optional; error_lines holds one line when the
\* response reports an error or a warning.
ErrorsObjects ==
    { [has_errors |-> e, has_warnings |-> w,
       error_count |-> IF e THEN 1 ELSE 0,
       warning_count |-> IF w THEN 1 ELSE 0,
       error_lines |-> IF e \/ w THEN <<"L1">> ELSE <<>>] :
      e \in BOOLEAN, w \in BOOLEAN }

ValidationBodies ==
    { s @@ e : s \in Opt("validation_status", {"PASSED", "WARNING", "FAILED", "UNKNOWN"}),
               e \in Opt("errors", ErrorsObjects) }

WarningsOpt == Opt("warnings", {<<>>, <<"W1">>})
SuccessOpt == Opt("success", BOOLEAN)
Bundle == [resourceType |-> "Bundle"]

HipaaToFhirBodies ==
    { w @@ a @@ b : w \in WarningsOpt,
                    a \in Opt("fhir_bundle", {EmptyDict, Bundle}),
                    b \in Opt("fhir_output", {Bundle}) }
HipaaToRmapBodies ==
    { w @@ a @@ b : w \in WarningsOpt,
                    a \in Opt("rmap_content", {"", "RMAP"}),
                    b \in Opt("rmap_parsed", {[record_count |-> 1]}) }
RmapToHipaaBodies ==
    { w @@ a @@ b : w \in WarningsOpt,
                    a \in Opt("x12_content", {"", "X12-A"}),
                    b \in Opt("hipaa_content", {"", "X12-B"}) }
HipaaToDatabaseBodies ==
    { w @@ a @@ b : w \in WarningsOpt, a \in SuccessOpt,
                    b \in Opt("session_id", {"S1"}) }
DatabaseToHipaaBodies ==
    { w @@ a @@ b : w \in WarningsOpt, a \in SuccessOpt,
                    b \in Opt("stage2_rmap_to_hipaa",
                              {EmptyDict, [hipaa_content |-> ""],
                               [hipaa_content |-> "X12-A"]}) }
Hl7ConvertBodies ==
    { w @@ a @@ b : w \in WarningsOpt, a \in SuccessOpt,
                    b \in Opt("fhir_bundle", {Bundle}) }
FhirToX12Bodies ==
    { w @@ a : w \in WarningsOpt, a \in Opt("x12_output", {"", "X12-A"}) }
FhirToRmapBodies ==
    { w @@ a : w \in WarningsOpt, a \in Opt("rmap_output", {"", "RMAP"}) }
ClaimsToPdfBodies ==
    { w @@ a : w \in WarningsOpt, a \in Opt("pdf_files", {<<>>, <<"claim1.pdf">>}) }
SupportedBodies == { EmptyDict, [transactions |-> <<"837P">>] }

(***************************************************************************)
(* api_client.py: the Transport Adapter.  An adapter call either raises    *)
(* (raised = TRUE) or returns a value that is a dict (d) or a list.        *)
(***************************************************************************)
\* Mutant: the marker is built without its "_error" entry.
_error_dict_unmarked(status_code, detail, url) ==
    [_status_code |-> status_code, _detail |-> detail, _url |-> url]

\* detail[:2000] and the texts themselves are not modelled: detail is a token.
_error_dict(status_code, detail, url) ==
    [_error |-> TRUE, _status_code |-> status_code, _detail |-> detail, _url |-> url]

Returned(type, d) == [raised |-> FALSE, type |-> type, d |-> d]
Raised(exc) == [raised |-> TRUE, type |-> exc, d |-> EmptyDict]

\* The try block shared by the three methods: the request, raise_for_status,
\* the content-type test, resp.json(), and the two except clauses.
_exchange(o, url) ==
    IF o.err = "RequestError"
    THEN Returned("dict", _error_dict(0, "request error", url))
    ELSE IF o.status >= 400
    THEN Returned("dict", _error_dict(o.status, "response text", url))
    ELSE IF o.ctype = "application/json"
    THEN CASE o.kind = "object" -> Returned("dict", o.obj)
           [] o.kind = "array" -> Returned("list", EmptyDict)
           [] OTHER -> Raised("JSONDecodeError")
    ELSE Returned("dict", [_raw_text |-> "response text", _status_code |-> o.status])

post_form(o, endpoint) == _exchange(o, endpoint)
post_json(o, endpoint) == _exchange(o, endpoint)
get(o, endpoint) == _exchange(o, endpoint)

\* Mutant: the error marker is not looked at.
IsError_ignored(result) == FALSE

\* result.get("_error") on what the adapter returned.
IsError(result) == GetD(result, "_error", FALSE)

(***************************************************************************)
(* response.py: the Decision Record Builder                                *)
(***************************************************************************)
\* str(uuid.uuid4()): a token no earlier record of the run carries.
uuid4 == nextId

\* Mutant: the default token is computed once, when the function is defined.
build_response_default_once(status, ruling, data, errors, warnings, gate, transaction_id) ==
    [status |-> status,
     redix_ruling |-> ruling,
     gate |-> gate,
     transaction_id |-> IF transaction_id # None THEN transaction_id[1] ELSE 1,
     data |-> IF TruthyDict(data) THEN data[1] ELSE EmptyDict,
     errors |-> IF TruthyList(errors) THEN errors[1] ELSE <<>>,
     warnings |-> IF TruthyList(warnings) THEN warnings[1] ELSE <<>>]

build_response(status, ruling, data, errors, warnings, gate, transaction_id) ==
    [status |-> status,
     redix_ruling |-> ruling,
     gate |-> gate,
     transaction_id |-> IF transaction_id # None THEN transaction_id[1] ELSE uuid4,
     data |-> IF TruthyDict(data) THEN data[1] ELSE EmptyDict,
     errors |-> IF TruthyList(errors) THEN errors[1] ELSE <<>>,
     warnings |-> IF TruthyList(warnings) THEN warnings[1] ELSE <<>>]

(***************************************************************************)
(* Requests, as the adapter receives them.  file is the upload made by     *)
(* make_upload (None when there is none); a params or json_body of None is *)
(* the empty dict.                                                         *)
(***************************************************************************)
VALIDATE_ENDPOINT == "/api/v2/hipaa-validate/validate-content"

Request(method, endpoint, json_body, file, data, params) ==
    [method |-> method, endpoint |-> endpoint, json_body |-> json_body,
     file |-> file, data |-> data, params |-> params]

make_upload(content, filename) == Some([filename |-> filename, content |-> content])

\* {"content": ...} plus transaction_type when it is truthy.
validate_json_body(content, transaction_type) ==
    IF TruthyStr(transaction_type)
    THEN [content |-> content, transaction_type |-> transaction_type[1]]
    ELSE [content |-> content]

validate_request(content, transaction_type) ==
    Request("post_json", VALIDATE_ENDPOINT,
            validate_json_body(content, transaction_type), None, EmptyDict, EmptyDict)

\* params with transaction_type when it is truthy.
tx_params(transaction_type) ==
    IF TruthyStr(transaction_type)
    THEN [transaction_type |-> transaction_type[1]]
    ELSE EmptyDict

\* f"input.{transaction_type}.<ext>" if transaction_type else "input.<ext>"
input_filename(transaction_type, ext) ==
    IF TruthyStr(transaction_type)
    THEN "input." \o transaction_type[1] \o "." \o ext
    ELSE "input." \o ext

(***************************************************************************)
(* gates.py: what each gate does with the validation call's result.        *)
(* The gate's own request is validate_request.                             *)
(***************************************************************************)
\* Mutant: the gate looks at validation_status alone.
gate1_blocks_errors_status_only(validation_status, has_errors) ==
    validation_status = "FAILED"

\* validation_status == "FAILED" or has_errors
gate1_blocks_errors(validation_status, has_errors) ==
    validation_status = "FAILED" \/ has_errors

\* Mutant: strict mode looks at validation_status alone.
gate1_blocks_warnings_status_only(validation_status, has_warnings, strict_mode) ==
    validation_status = "WARNING" /\ strict_mode

\* (validation_status == "WARNING" or has_warnings) and strict_mode
gate1_blocks_warnings(validation_status, has_warnings, strict_mode) ==
    (validation_status = "WARNING" \/ has_warnings) /\ strict_mode

gate1_input_validation(result, strict_mode) ==
    IF IsError(result)
    THEN Some(build_response("ERROR",
              "Gate 1 (input validation) could not reach the validation service.",
              None, None, None, Some("gate1_input_validation"), None))
    ELSE LET validation_status == GetD(result, "validation_status", "UNKNOWN")
             errors_obj == GetD(result, "errors", EmptyDict)
             has_errors == GetD(errors_obj, "has_errors", FALSE)
             has_warnings == GetD(errors_obj, "has_warnings", FALSE)
             error_count == GetD(errors_obj, "error_count", 0)
             warning_count == GetD(errors_obj, "warning_count", 0)
             error_lines == GetD(errors_obj, "error_lines", <<>>)
         IN IF gate1_blocks_errors(validation_status, has_errors)
            THEN Some(build_response("BLOCKED",
                      "Conversion REFUSED. Input X12 has validation error(s).",
                      Some([validation_status |-> validation_status,
                            error_count |-> error_count,
                            warning_count |-> warning_count]),
                      Some(error_lines), Some(<<>>),
                      Some("gate1_input_validation"), None))
            ELSE IF gate1_blocks_warnings(validation_status, has_warnings, strict_mode)
            THEN Some(build_response("BLOCKED",
                      "Conversion REFUSED (strict mode). Input X12 has warning(s).",
                      Some([validation_status |-> validation_status,
                            warning_count |-> warning_count]),
                      None, Some(error_lines),
                      Some("gate1_input_validation"), None))
            ELSE None

\* Mutant: the output gate also objects to validation_status WARNING.
gate5_blocks_errors_and_warnings(validation_status, has_errors) ==
    validation_status \in {"FAILED", "WARNING"} \/ has_errors

\* Mutant: the output gate looks at validation_status only.
gate5_blocks_errors_status_only(validation_status, has_errors) ==
    validation_status = "FAILED"

\* validation_status == "FAILED" or has_errors
gate5_blocks_errors(validation_status, has_errors) ==
    validation_status = "FAILED" \/ has_errors

\* Mutant: the verdict's data carries a token drawn at the call.
gate5_output_validation_stamped(result, source_tool) ==
    IF IsError(result)
    THEN Some(build_response("ERROR",
              "Gate 5 (output validation) could not re-validate the generated X12.",
              None, None, None, Some("gate5_output_validation"), None))
    ELSE LET validation_status == GetD(result, "validation_status", "UNKNOWN")
             errors_obj == GetD(result, "errors", EmptyDict)
             has_errors == GetD(errors_obj, "has_errors", FALSE)
             error_count == GetD(errors_obj, "error_count", 0)
             error_lines == GetD(errors_obj, "error_lines", <<>>)
         IN IF gate5_blocks_errors(validation_status, has_errors)
            THEN Some(build_response("BLOCKED",
                      "X12 was generated by " \o source_tool \o " but FAILED output validation",
                      Some([validation_status |-> validation_status,
                            error_count |-> error_count,
                            audit_id |-> uuid4]),
                      Some(error_lines), None,
                      Some("gate5_output_validation"), None))
            ELSE None

gate5_output_validation(result, source_tool) ==
    IF IsError(result)
    THEN Some(build_response("ERROR",
              "Gate 5 (output validation) could not re-validate the generated X12.",
              None, None, None, Some("gate5_output_validation"), None))
    ELSE LET validation_status == GetD(result, "validation_status", "UNKNOWN")
             errors_obj == GetD(result, "errors", EmptyDict)
             has_errors == GetD(errors_obj, "has_errors", FALSE)
             error_count == GetD(errors_obj, "error_count", 0)
             error_lines == GetD(errors_obj, "error_lines", <<>>)
         IN IF gate5_blocks_errors(validation_status, has_errors)
            THEN Some(build_response("BLOCKED",
                      "X12 was generated by " \o source_tool \o " but FAILED output validation",
                      Some([validation_status |-> validation_status,
                            error_count |-> error_count]),
                      Some(error_lines), None,
                      Some("gate5_output_validation"), None))
            ELSE None

(***************************************************************************)
(* server.py: transaction type mapping                                     *)
(***************************************************************************)
_FHIR_TX_MAP ==
    [k \in {"837p", "837i", "837d", "835", "834", "270", "271", "276", "277", "278",
            "278-request", "278-response", "837-professional", "837-institutional",
            "837-dental", "835-remittance", "834-enrollment", "270-eligibility",
            "271-eligibility", "276-claim-status", "277-claim-status"} |->
       CASE k = "837p" -> "837-professional"
         [] k = "837i" -> "837-institutional"
         [] k = "837d" -> "837-dental"
         [] k = "835" -> "835-remittance"
         [] k = "834" -> "834-enrollment"
         [] k = "270" -> "270-eligibility"
         [] k = "271" -> "271-eligibility"
         [] k = "276" -> "276-claim-status"
         [] k = "277" -> "277-claim-status"
         [] k = "278" -> "278-request"
         [] OTHER -> k]

\* str.lower() on the transaction codes the model uses.
lower(s) ==
    CASE s = "837P" -> "837p"
      [] s = "837I" -> "837i"
      [] s = "837D" -> "837d"
      [] s = "837-Professional" -> "837-professional"
      [] s = "278-REQUEST" -> "278-request"
      [] s = "XYZ" -> "xyz"
      [] OTHER -> s

\* Mutant: the table is looked up with the code as given.
_fhir_tx_case_sensitive(transaction_type) ==
    IF ~TruthyStr(transaction_type)
    THEN None
    ELSE Some(GetD(_FHIR_TX_MAP, transaction_type[1], transaction_type[1]))

_fhir_tx(transaction_type) ==
    IF ~TruthyStr(transaction_type)
    THEN None
    ELSE Some(GetD(_FHIR_TX_MAP, lower(transaction_type[1]), transaction_type[1]))

\* "APPROVED_WITH_CONDITIONS" if warnings else "APPROVED"
status_of(warnings) == IF warnings # <<>> THEN "APPROVED_WITH_CONDITIONS" ELSE "APPROVED"

(***************************************************************************)
(* server.py: what each tool does with its conversion call's result.       *)
(* <tool>_request is the conversion request the tool sends, <tool>_result  *)
(* the record it builds from the call's result.                            *)
(***************************************************************************)
\* Mutant: only validation_status is looked at.
validate_x12_failed_status_only(validation_status, has_errors) ==
    validation_status = "FAILED"

\* if validation_status == "FAILED" or has_errors:
validate_x12_failed(validation_status, has_errors) ==
    validation_status = "FAILED" \/ has_errors

validate_x12_result(result, transaction_type) ==
    IF IsError(result)
    THEN build_response("ERROR", "Validation service error: HTTP",
                        None, None, None, None, None)
    ELSE LET validation_status == GetD(result, "validation_status", "UNKNOWN")
             errors_obj == GetD(result, "errors", EmptyDict)
             has_errors == GetD(errors_obj, "has_errors", FALSE)
             has_warnings == GetD(errors_obj, "has_warnings", FALSE)
             error_count == GetD(errors_obj, "error_count", 0)
             warning_count == GetD(errors_obj, "warning_count", 0)
             error_lines == GetD(errors_obj, "error_lines", <<>>)
             data == [validation_status |-> validation_status,
                      transaction_type |-> Get(result, "transaction_type"),
                      transaction_name |-> Get(result, "transaction_name"),
                      error_count |-> error_count,
                      warning_count |-> warning_count,
                      validation_levels |-> Get(result, "validation_levels"),
                      ta1 |-> Get(result, "ta1"),
                      ack999 |-> Get(result, "ack999"),
                      balance_report |-> Get(result, "balance_report")]
         IN IF validate_x12_failed(validation_status, has_errors)
            THEN build_response("BLOCKED", "Validation FAILED with error(s).",
                                Some(data), Some(error_lines), None,
                                Some("validation"), None)
            ELSE IF has_warnings
            THEN build_response("APPROVED_WITH_CONDITIONS",
                                "Validation PASSED with warning(s).",
                                Some(data), None, Some(error_lines),
                                Some("validation"), None)
            ELSE build_response("APPROVED", "Validation PASSED.",
                                Some(data), None, None, Some("validation"), None)

\* result.get("transaction_type", transaction_type)
detected_tx(result, transaction_type) ==
    IF "transaction_type" \in DOMAIN result
    THEN Some(result["transaction_type"])
    ELSE transaction_type

convert_x12_to_fhir_request(a) ==
    Request("post_form", "/api/v2/hipaa-to-fhir/convert", EmptyDict,
            make_upload(a.content, input_filename(a.transaction_type, "x12")),
            EmptyDict,
            IF TruthyStr(a.transaction_type)
            THEN [transaction_type |-> _fhir_tx(a.transaction_type)[1]]
            ELSE EmptyDict)

convert_x12_to_fhir_result(result, a) ==
    IF IsError(result)
    THEN build_response("ERROR", "X12-to-FHIR conversion failed: HTTP",
                        None, None, None, None, None)
    ELSE LET warnings == GetD(result, "warnings", <<>>)
         IN build_response(status_of(warnings),
               "X12 successfully converted to FHIR R4 Bundle.",
               Some([fhir_bundle |->
                        IF TruthyDict(Get(result, "fhir_bundle"))
                        THEN result["fhir_bundle"]
                        ELSE IF TruthyDict(Get(result, "fhir_output"))
                        THEN result["fhir_output"]
                        ELSE result,
                     transaction_type |-> detected_tx(result, a.transaction_type),
                     metadata |-> Get(result, "metadata")]),
               None, Some(warnings), None, None)

convert_x12_to_rmap_request(a) ==
    Request("post_form", "/api/v2/hipaa-to-rmap/convert", EmptyDict,
            make_upload(a.content, input_filename(a.transaction_type, "x12")),
            EmptyDict, tx_params(a.transaction_type))

convert_x12_to_rmap_result(result, a) ==
    IF IsError(result)
    THEN build_response("ERROR", "X12-to-RMap conversion failed: HTTP",
                        None, None, None, None, None)
    ELSE LET warnings == GetD(result, "warnings", <<>>)
             parsed == GetD(result, "rmap_parsed", EmptyDict)
         IN build_response(status_of(warnings),
               "X12 converted to RMap v5 with record(s).",
               Some([rmap_content |-> Get(result, "rmap_content"),
                     rmap_parsed |-> parsed,
                     metadata |-> Get(result, "metadata")]),
               None, Some(warnings), None, None)

convert_x12_to_database_request(a) ==
    Request("post_form", "/api/v2/hipaa-to-database/load", EmptyDict,
            make_upload(a.content, input_filename(a.transaction_type, "x12")),
            tx_params(a.transaction_type) @@
              (IF TruthyStr(a.session_id) THEN [session_id |-> a.session_id[1]]
               ELSE EmptyDict),
            EmptyDict)

convert_x12_to_database_result(result, a) ==
    IF IsError(result)
    THEN build_response("ERROR", "X12-to-database load failed: HTTP",
                        None, None, None, None, None)
    ELSE IF ~GetD(result, "success", FALSE)
    THEN build_response("ERROR", "Database load failed: ",
                        Some(result), None, None, None, None)
    ELSE LET stage2 == GetD(result, "stage2", EmptyDict)
             warnings == GetD(result, "warnings", <<>>)
         IN build_response(status_of(warnings),
               "X12 loaded into database session",
               Some([session_id |-> Get(result, "session_id"),
                     transaction_type |-> Get(result, "transaction_type"),
                     tables_created |-> Get(stage2, "tables_created"),
                     tables_with_data |-> Get(stage2, "tables_with_data"),
                     total_rows |-> Get(stage2, "total_rows"),
                     table_counts |-> Get(stage2, "table_counts")]),
               None, Some(warnings), None, None)

generate_claim_pdf_request(a) ==
    Request("post_form", "/api/v2/claims-to-pdf/convert", EmptyDict,
            make_upload(a.content, "claim.x12"), EmptyDict,
            IF a.claim_type # "auto" THEN [claim_type |-> a.claim_type]
            ELSE EmptyDict)

\* tx_type = claim_type if claim_type != "auto" else "837p"
generate_claim_pdf_tx_type(a) ==
    IF a.claim_type # "auto" THEN Some(a.claim_type) ELSE Some("837p")

generate_claim_pdf_result(result, a) ==
    IF IsError(result)
    THEN build_response("ERROR", "Claims-to-PDF conversion failed: HTTP",
                        None, None, None, None, None)
    ELSE LET pdf_files == GetD(result, "pdf_files", <<>>)
             form_name == GetD(result, "form_name", "unknown")
         IN build_response("APPROVED", "Generated PDF claim form(s).",
               Some([claim_type |-> Get(result, "claim_type"),
                     form_name |-> form_name,
                     pdf_count |-> GetD(result, "pdf_count", Len(pdf_files)),
                     pdf_files |-> pdf_files,
                     zip_download_url |-> Get(result, "zip_download_url"),
                     conversion_id |-> Get(result, "conversion_id")]),
               None, None, None, None)

convert_hl7_to_fhir_request(a) ==
    Request("post_form", "/api/v2/ai/hl7-convert", EmptyDict, None,
            [content |-> a.content], EmptyDict)

convert_hl7_to_fhir_result(result, a) ==
    IF IsError(result)
    THEN build_response("ERROR", "HL7-to-FHIR conversion failed: HTTP",
                        None, None, None, None, None)
    ELSE IF ~GetD(result, "success", TRUE)
    THEN build_response("ERROR", "HL7-to-FHIR conversion failed: ",
                        Some(result), None, None, None, None)
    ELSE LET fhir_bundle == GetD(result, "fhir_bundle", EmptyDict)
             resource_count == GetD(result, "resource_count", 0)
             message_type == GetD(result, "message_type", "unknown")
         IN build_response("APPROVED", "HL7 converted to FHIR R4 Bundle",
               Some([fhir_bundle |-> fhir_bundle,
                     message_type |-> message_type,
                     resource_count |-> resource_count,
                     processing_time_ms |-> Get(result, "processing_time_ms")]),
               None, None, None, None)

convert_cda_to_fhir_request(a) ==
    Request("post_form", "/api/v2/ai/hl7-convert", EmptyDict, None,
            [content |-> a.content], EmptyDict)

convert_cda_to_fhir_result(result, a) ==
    IF IsError(result)
    THEN build_response("ERROR", "CDA-to-FHIR conversion failed: HTTP",
                        None, None, None, None, None)
    ELSE IF ~GetD(result, "success", TRUE)
    THEN build_response("ERROR", "CDA-to-FHIR conversion failed: ",
                        Some(result), None, None, None, None)
    ELSE LET fhir_bundle == GetD(result, "fhir_bundle", EmptyDict)
             resource_count ==
                 IF GetD(result, "resource_count", 0) # 0
                 THEN result["resource_count"]
                 ELSE Len(GetD(fhir_bundle, "entry", <<>>))
             message_type == GetD(result, "message_type", "CDA")
         IN build_response("APPROVED", " document converted to FHIR R4 Bundle",
               Some([fhir_bundle |-> fhir_bundle,
                     document_type |-> message_type,
                     resource_count |-> resource_count,
                     processing_time_ms |-> Get(result, "processing_time_ms")]),
               None, None, None, None)

\* json.loads(fhir_bundle): the parsed object, or None for JSONDecodeError.
ValidFhirText == "{\"resourceType\": \"Bundle\"}"
InvalidFhirText == "{not json"
\* Mutant: the parser accepts any text.
json_loads_lenient(text) == Some(Bundle)

json_loads(text) == IF text = ValidFhirText THEN Some(Bundle) ELSE None

convert_fhir_to_rmap_request(a) ==
    Request("post_json", "/api/v2/fhir-to-hipaa/convert",
            json_loads(a.content)[1], None, EmptyDict, [output_format |-> "rmap"])

convert_fhir_to_rmap_result(result, a) ==
    IF IsError(result)
    THEN build_response("ERROR", "FHIR-to-RMap conversion failed: HTTP",
                        None, None, None, None, None)
    ELSE LET rmap_output == GetD(result, "rmap_output", "")
             warnings == GetD(result, "warnings", <<>>)
         IN build_response(status_of(warnings),
               "FHIR Bundle converted to RMap intermediate format.",
               Some([rmap_content |-> rmap_output,
                     metadata |-> Get(result, "metadata")]),
               None, Some(warnings), None, None)

(***************************************************************************)
(* The three tools that produce X12 and re-validate it (Gate 5).           *)
(* <tool>_x12_output is the text taken from the conversion result,         *)
(* <tool>_error the ERROR record returned before the gate (None when the   *)
(* tool goes on to Gate 5), <tool>_result the record built when the gate   *)
(* raises no objection.                                                    *)
(***************************************************************************)
convert_rmap_to_x12_request(a) ==
    Request("post_form", "/api/v2/rmap-to-hipaa/convert", EmptyDict,
            make_upload(a.content, input_filename(a.transaction_type, "rmap")),
            EmptyDict, tx_params(a.transaction_type))

\* Mutant: the alternate key is preferred.
convert_rmap_to_x12_x12_output_alt_first(result) ==
    IF TruthyStr(Get(result, "hipaa_content"))
    THEN result["hipaa_content"]
    ELSE GetD(result, "x12_content", "")

\* result.get("x12_content") or result.get("hipaa_content", "")
convert_rmap_to_x12_x12_output(result) ==
    IF TruthyStr(Get(result, "x12_content"))
    THEN result["x12_content"]
    ELSE GetD(result, "hipaa_content", "")

convert_rmap_to_x12_error(result) ==
    IF IsError(result)
    THEN Some(build_response("ERROR", "RMap-to-X12 conversion failed: HTTP",
                             None, None, None, None, None))
    ELSE IF convert_rmap_to_x12_x12_output(result) = ""
    THEN Some(build_response("ERROR",
                             "RMap-to-X12 conversion returned empty X12 content.",
                             None, None, None, None, None))
    ELSE None

\* Mutant: the success record re-reads the first key instead of x12_output.
convert_rmap_to_x12_result_rereads(result, x12, a) ==
    LET warnings == GetD(result, "warnings", <<>>)
    IN build_response(status_of(warnings),
          "RMap converted to X12 and passed output validation.",
          Some([x12_content |-> GetD(result, "x12_content", ""),
                metadata |-> Get(result, "metadata")]),
          None, Some(warnings), None, None)

convert_rmap_to_x12_result(result, x12, a) ==
    LET warnings == GetD(result, "warnings", <<>>)
    IN build_response(status_of(warnings),
          "RMap converted to X12 and passed output validation.",
          Some([x12_content |-> x12, metadata |-> Get(result, "metadata")]),
          None, Some(warnings), None, None)

generate_x12_from_database_request(a) ==
    Request("post_json", "/api/v2/database-to-hipaa/convert", EmptyDict, None,
            EmptyDict,
            tx_params(a.transaction_type) @@
              (IF a.record_id # None THEN [record_id |-> a.record_id[1]]
               ELSE EmptyDict))

\* result.get("stage2_rmap_to_hipaa", {}).get("hipaa_content", "")
generate_x12_from_database_x12_output(result) ==
    GetD(GetD(result, "stage2_rmap_to_hipaa", EmptyDict), "hipaa_content", "")

generate_x12_from_database_error(result) ==
    IF IsError(result)
    THEN Some(build_response("ERROR", "Database-to-X12 generation failed: HTTP",
                             None, None, None, None, None))
    ELSE IF ~GetD(result, "success", FALSE)
    THEN Some(build_response("ERROR", "Database-to-X12 generation failed: ",
                             Some(result), None, None, None, None))
    ELSE IF generate_x12_from_database_x12_output(result) = ""
    THEN Some(build_response("ERROR",
                             "Database-to-X12 generation returned empty X12 content.",
                             None, None, None, None, None))
    ELSE None

generate_x12_from_database_result(result, x12, a) ==
    build_response("APPROVED",
        "X12 generated from database record and passed output validation.",
        Some([x12_content |-> x12,
              transaction_type |-> Get(result, "transaction_type"),
              metadata |-> Get(result, "metadata")]),
        None, None, None, None)

convert_fhir_to_x12_request(a) ==
    Request("post_json", "/api/v2/fhir-to-hipaa/convert",
            json_loads(a.content)[1], None, EmptyDict, [output_format |-> "x12"])

convert_fhir_to_x12_x12_output(result) == GetD(result, "x12_output", "")

convert_fhir_to_x12_error(result) ==
    IF IsError(result)
    THEN Some(build_response("ERROR", "FHIR-to-X12 conversion failed: HTTP",
                             None, None, None, None, None))
    ELSE IF convert_fhir_to_x12_x12_output(result) = ""
    THEN Some(build_response("ERROR",
                             "FHIR-to-X12 conversion returned empty X12 content.",
                             Some(result), None, None, None, None))
    ELSE None

convert_fhir_to_x12_result(result, x12, a) ==
    LET warnings == GetD(result, "warnings", <<>>)
        conv_type == GetD(result, "conversion_type", "278")
    IN build_response(status_of(warnings),
          "FHIR Bundle converted to X12 and passed output validation.",
          Some([x12_content |-> x12, conversion_type |-> conv_type,
                metadata |-> Get(result, "metadata")]),
          None, Some(warnings), None, None)

(***************************************************************************)
(* The callers' inputs                                                     *)
(***************************************************************************)
X12Contents == {"ISA*A", "ISA*B"}
TxInputs == {None, Some("837P"), Some("999")}

Args(content, transaction_type, strict_mode, claim_type, session_id, record_id) ==
    [content |-> content, transaction_type |-> transaction_type,
     strict_mode |-> strict_mode, claim_type |-> claim_type,
     session_id |-> session_id, record_id |-> record_id]

Gate1Tools == {"convert_x12_to_fhir", "convert_x12_to_rmap",
               "convert_x12_to_database", "generate_claim_pdf"}
Gate5Tools == {"convert_rmap_to_x12", "generate_x12_from_database",
               "convert_fhir_to_x12"}
PlainTools == {"convert_hl7_to_fhir", "convert_cda_to_fhir", "convert_fhir_to_rmap"}
FhirTools == {"convert_fhir_to_x12", "convert_fhir_to_rmap"}

ToolArgs(t) ==
    CASE t \in {"validate_x12", "convert_rmap_to_x12"} ->
           { Args(c, tx, FALSE, "auto", None, None) :
               c \in X12Contents, tx \in TxInputs }
      [] t \in {"convert_x12_to_fhir", "convert_x12_to_rmap"} ->
           { Args(c, tx, sm, "auto", None, None) :
               c \in X12Contents, tx \in TxInputs, sm \in BOOLEAN }
      [] t = "convert_x12_to_database" ->
           { Args(c, tx, sm, "auto", sid, None) :
               c \in X12Contents, tx \in TxInputs, sm \in BOOLEAN,
               sid \in {None, Some("S0")} }
      [] t = "generate_claim_pdf" ->
           { Args(c, None, sm, ct, None, None) :
               c \in X12Contents, sm \in BOOLEAN, ct \in {"auto", "837p", "837i"} }
      [] t = "generate_x12_from_database" ->
           { Args("", tx, FALSE, "auto", None, rid) :
               tx \in TxInputs, rid \in {None, Some("7")} }
      [] t \in {"convert_hl7_to_fhir", "convert_cda_to_fhir"} ->
           { Args(c, None, FALSE, "auto", None, None) : c \in {"MSH|1", "<cda/>"} }
      [] t \in FhirTools ->
           { Args(c, None, FALSE, "auto", None, None) :
               c \in {ValidFhirText, InvalidFhirText} }
      [] OTHER -> { Args("", None, FALSE, "auto", None, None) }

\* The conversion endpoint's possible response bodies, per tool.
ConvBodies(t) ==
    CASE t = "convert_x12_to_fhir" -> HipaaToFhirBodies
      [] t = "convert_x12_to_rmap" -> HipaaToRmapBodies
      [] t = "convert_x12_to_database" -> HipaaToDatabaseBodies
      [] t = "generate_claim_pdf" -> ClaimsToPdfBodies
      [] t = "convert_rmap_to_x12" -> RmapToHipaaBodies
      [] t = "generate_x12_from_database" -> DatabaseToHipaaBodies
      [] t = "convert_fhir_to_x12" -> FhirToX12Bodies
      [] t = "convert_fhir_to_rmap" -> FhirToRmapBodies
      [] OTHER -> Hl7ConvertBodies

ConvRequest(t, a) ==
    CASE t = "convert_x12_to_fhir" -> convert_x12_to_fhir_request(a)
      [] t = "convert_x12_to_rmap" -> convert_x12_to_rmap_request(a)
      [] t = "convert_x12_to_database" -> convert_x12_to_database_request(a)
      [] t = "generate_claim_pdf" -> generate_claim_pdf_request(a)
      [] t = "convert_rmap_to_x12" -> convert_rmap_to_x12_request(a)
      [] t = "generate_x12_from_database" -> generate_x12_from_database_request(a)
      [] t = "convert_fhir_to_x12" -> convert_fhir_to_x12_request(a)
      [] t = "convert_fhir_to_rmap" -> convert_fhir_to_rmap_request(a)
      [] t = "convert_hl7_to_fhir" -> convert_hl7_to_fhir_request(a)
      [] OTHER -> convert_cda_to_fhir_request(a)

\* The adapter method the conversion call goes through.
ConvCall(t, o, endpoint) ==
    IF t \in {"generate_x12_from_database"} \cup FhirTools
    THEN post_json(o, endpoint)
    ELSE post_form(o, endpoint)

\* The record a tool without output gate builds from its conversion result.
ToolResult(t, result, a) ==
    CASE t = "convert_x12_to_fhir" -> convert_x12_to_fhir_result(result, a)
      [] t = "convert_x12_to_rmap" -> convert_x12_to_rmap_result(result, a)
      [] t = "convert_x12_to_database" -> convert_x12_to_database_result(result, a)
      [] t = "generate_claim_pdf" -> generate_claim_pdf_result(result, a)
      [] t = "convert_fhir_to_rmap" -> convert_fhir_to_rmap_result(result, a)
      [] t = "convert_hl7_to_fhir" -> convert_hl7_to_fhir_result(result, a)
      [] OTHER -> convert_cda_to_fhir_result(result, a)

X12Output(t, result) ==
    CASE t = "convert_rmap_to_x12" -> convert_rmap_to_x12_x12_output(result)
      [] t = "generate_x12_from_database" -> generate_x12_from_database_x12_output(result)
      [] OTHER -> convert_fhir_to_x12_x12_output(result)

PreGateError(t, result) ==
    CASE t = "convert_rmap_to_x12" -> convert_rmap_to_x12_error(result)
      [] t = "generate_x12_from_database" -> generate_x12_from_database_error(result)
      [] OTHER -> convert_fhir_to_x12_error(result)

Gate5Result(t, result, x12, a) ==
    CASE t = "convert_rmap_to_x12" -> convert_rmap_to_x12_result(result, x12, a)
      [] t = "generate_x12_from_database" -> generate_x12_from_database_result(result, x12, a)
      [] OTHER -> convert_fhir_to_x12_result(result, x12, a)

\* The transaction type each tool hands to its gate.
Gate1Tx(t, a) ==
    IF t = "generate_claim_pdf" THEN generate_claim_pdf_tx_type(a) ELSE a.transaction_type
Gate5Tx(t, a) ==
    IF t = "convert_fhir_to_x12" THEN Some("278") ELSE a.transaction_type

(***************************************************************************)
(* Steps of an invocation                                                  *)
(***************************************************************************)
\* An adapter call whose outcome the caller cannot use: the adapter raised, or
\* it returned a list and result.get raises AttributeError.
Crashes(r) == r.raised \/ r.type = "list"

\* Mutant: the verdict is tested against True instead of for truthiness.
Objects_is_true(verdict) == FALSE

\* `if blocked:` / `if gate5:` on a gate's verdict.
Objects(verdict) == verdict # None

\* Mutant: the rejected content is not attached.
attach_x12_dropped(record, x12) == record

\* gate5["data"]["x12_content"] = x12_output
attach_x12(record, x12) ==
    [record EXCEPT !.data = ("x12_content" :> x12) @@ record.data]

Idle == pc \in {"idle", "returned", "raised"}

\* A tool is called; its code runs to its first remote call.
Begin(t, a, req, at) ==
    /\ Idle
    /\ ncalls < MaxCalls
    /\ a \in ToolArgs(t)
    /\ tool' = t
    /\ args' = a
    /\ ncalls' = ncalls + 1
    /\ requests' = <<req>>
    /\ results' = <<>>
    /\ exchanges' = <<>>
    /\ blocked' = None
    /\ gate5' = None
    /\ ret' = None
    /\ x12_output' = ""
    /\ manifest' = EmptyDict
    /\ pc' = at
    /\ UNCHANGED <<nextId, ids, client, calls, probe>>

\* return <record>
Return(record) ==
    /\ pc' = "returned"
    /\ ret' = Some(record)
    /\ nextId' = nextId + 1
    /\ ids' = Append(ids, record.transaction_id)
    /\ UNCHANGED <<client, calls, probe>>

\* an exception leaves the tool
Throw ==
    /\ pc' = "raised"
    /\ ret' = None
    /\ UNCHANGED <<nextId, ids, client, calls, probe>>

\* the next remote call is issued
Continue(req, at) ==
    /\ requests' = Append(requests, req)
    /\ pc' = at
    /\ UNCHANGED <<ret, nextId, ids, client, calls, probe>>

\* blocked = await gate1_input_validation(...); if blocked: return blocked;
\* then the conversion request.
AfterGate1(t) ==
    /\ tool = t
    /\ pc = "gate1"
    /\ \E o \in Outcomes(ValidationBodies) :
         LET r == post_json(o, VALIDATE_ENDPOINT)
         IN /\ results' = Append(results, r)
            /\ exchanges' = Append(exchanges, o)
            /\ IF Crashes(r)
               THEN Throw /\ UNCHANGED <<requests, blocked>>
               ELSE /\ blocked' = gate1_input_validation(r.d, args.strict_mode)
                    /\ IF Objects(blocked')
                       THEN Return(blocked'[1]) /\ UNCHANGED requests
                       ELSE Continue(ConvRequest(t, args), "convert")
    /\ UNCHANGED <<tool, args, ncalls, gate5, x12_output, manifest>>

\* result = await client.post_*(conversion endpoint); the tool builds its record.
AfterConvert(t) ==
    /\ tool = t
    /\ pc = "convert"
    /\ \E o \in Outcomes(ConvBodies(t)) :
         LET r == ConvCall(t, o, requests[Len(requests)].endpoint)
         IN /\ results' = Append(results, r)
            /\ exchanges' = Append(exchanges, o)
            /\ IF Crashes(r)
               THEN Throw
               ELSE Return(ToolResult(t, r.d, args))
    /\ UNCHANGED <<tool, args, ncalls, requests, blocked, gate5, x12_output, manifest>>

\* result = await client.post_*(conversion endpoint); the error returns, the
\* X12 taken from the result, then Gate 5's validation request.
AfterConvertX12(t) ==
    /\ tool = t
    /\ pc = "convert"
    /\ \E o \in Outcomes(ConvBodies(t)) :
         LET r == ConvCall(t, o, requests[Len(requests)].endpoint)
         IN /\ results' = Append(results, r)
            /\ exchanges' = Append(exchanges, o)
            /\ IF Crashes(r)
               THEN Throw /\ UNCHANGED <<requests, x12_output>>
               ELSE IF PreGateError(t, r.d) # None
               THEN Return(PreGateError(t, r.d)[1]) /\ UNCHANGED <<requests, x12_output>>
               ELSE /\ x12_output' = X12Output(t, r.d)
                    /\ Continue(validate_request(X12Output(t, r.d), Gate5Tx(t, args)),
                                "gate5")
    /\ UNCHANGED <<tool, args, ncalls, blocked, gate5, manifest>>

\* gate5 = await gate5_output_validation(...); if gate5: attach and return it;
\* else the success record.
AfterGate5(t) ==
    /\ tool = t
    /\ pc = "gate5"
    /\ \E o \in Outcomes(ValidationBodies) :
         LET r == post_json(o, VALIDATE_ENDPOINT)
         IN /\ results' = Append(results, r)
            /\ exchanges' = Append(exchanges, o)
            /\ IF Crashes(r)
               THEN Throw /\ UNCHANGED gate5
               ELSE /\ gate5' = gate5_output_validation(r.d, t)
                    /\ IF Objects(gate5')
                       THEN Return(attach_x12(gate5'[1], x12_output))
                       ELSE Return(Gate5Result(t, results[1].d, x12_output, args))
    /\ UNCHANGED <<tool, args, ncalls, requests, blocked, x12_output, manifest>>

(***************************************************************************)
(* The twelve tools                                                        *)
(***************************************************************************)
validate_x12 ==
    \/ \E a \in ToolArgs("validate_x12") :
         Begin("validate_x12", a, validate_request(a.content, a.transaction_type),
               "validate")
    \/ /\ tool = "validate_x12"
       /\ pc = "validate"
       /\ \E o \in Outcomes(ValidationBodies) :
            LET r == post_json(o, VALIDATE_ENDPOINT)
            IN /\ results' = Append(results, r)
               /\ exchanges' = Append(exchanges, o)
               /\ IF Crashes(r)
                  THEN Throw
                  ELSE Return(validate_x12_result(r.d, args.transaction_type))
       /\ UNCHANGED <<tool, args, ncalls, requests, blocked, gate5, x12_output, manifest>>

\* A tool behind Gate 1: the gate's validation call, the conversion call.
BeginGate1(t) ==
    \E a \in ToolArgs(t) :
        Begin(t, a, validate_request(a.content, Gate1Tx(t, a)), "gate1")

\* A tool whose first remote call is its conversion call.
BeginConvert(t) ==
    \E a \in ToolArgs(t) : Begin(t, a, ConvRequest(t, a), "convert")

\* json.loads fails: the ERROR record is returned before any remote call.
BeginInvalidJson(t) ==
    \E a \in ToolArgs(t) :
        /\ json_loads(a.content) = None
        /\ Idle
        /\ ncalls < MaxCalls
        /\ tool' = t
        /\ args' = a
        /\ ncalls' = ncalls + 1
        /\ requests' = <<>>
        /\ results' = <<>>
        /\ exchanges' = <<>>
        /\ blocked' = None
        /\ gate5' = None
        /\ x12_output' = ""
        /\ manifest' = EmptyDict
        /\ Return(build_response("ERROR", "Invalid JSON in fhir_bundle: ",
                                 None, None, None, None, None))

BeginFhir(t) ==
    \E a \in ToolArgs(t) :
        /\ json_loads(a.content) # None
        /\ Begin(t, a, ConvRequest(t, a), "convert")

convert_x12_to_fhir ==
    \/ BeginGate1("convert_x12_to_fhir")
    \/ AfterGate1("convert_x12_to_fhir")
    \/ AfterConvert("convert_x12_to_fhir")

convert_x12_to_rmap ==
    \/ BeginGate1("convert_x12_to_rmap")
    \/ AfterGate1("convert_x12_to_rmap")
    \/ AfterConvert("convert_x12_to_rmap")

convert_rmap_to_x12 ==
    \/ BeginConvert("convert_rmap_to_x12")
    \/ AfterConvertX12("convert_rmap_to_x12")
    \/ AfterGate5("convert_rmap_to_x12")

convert_x12_to_database ==
    \/ BeginGate1("convert_x12_to_database")
    \/ AfterGate1("convert_x12_to_database")
    \/ AfterConvert("convert_x12_to_database")

generate_x12_from_database ==
    \/ BeginConvert("generate_x12_from_database")
    \/ AfterConvertX12("generate_x12_from_database")
    \/ AfterGate5("generate_x12_from_database")

convert_hl7_to_fhir ==
    \/ BeginConvert("convert_hl7_to_fhir")
    \/ AfterConvert("convert_hl7_to_fhir")

convert_cda_to_fhir ==
    \/ BeginConvert("convert_cda_to_fhir")
    \/ AfterConvert("convert_cda_to_fhir")

convert_fhir_to_x12 ==
    \/ BeginInvalidJson("convert_fhir_to_x12")
    \/ BeginFhir("convert_fhir_to_x12")
    \/ AfterConvertX12("convert_fhir_to_x12")
    \/ AfterGate5("convert_fhir_to_x12")

convert_fhir_to_rmap ==
    \/ BeginInvalidJson("convert_fhir_to_rmap")
    \/ BeginFhir("convert_fhir_to_rmap")
    \/ AfterConvert("convert_fhir_to_rmap")

generate_claim_pdf ==
    \/ BeginGate1("generate_claim_pdf")
    \/ AfterGate1("generate_claim_pdf")
    \/ AfterConvert("generate_claim_pdf")

\* The four read-only lookups, in order.
endpoints ==
    << <<"hipaa_validate", "/api/v2/hipaa-validate/supported-transactions">>,
       <<"hipaa_to_rmap", "/api/v2/hipaa-to-rmap/supported-transactions">>,
       <<"hipaa_to_fhir", "/api/v2/hipaa-to-fhir/supported-transactions">>,
       <<"database_to_hipaa", "/api/v2/database-to-hipaa/transaction-types">> >>

get_request(endpoint) == Request("get", endpoint, EmptyDict, None, EmptyDict, EmptyDict)

conversion_paths ==
    << "X12 -> FHIR R4 (hipaa-to-fhir)", "X12 -> RMap v5 (hipaa-to-rmap)",
       "RMap v5 -> X12 (rmap-to-hipaa)", "X12 -> Database (hipaa-to-database)",
       "Database -> X12 (database-to-hipaa)", "FHIR R4 -> X12 278 (fhir-to-hipaa)",
       "FHIR R4 -> RMap v5 (fhir-to-hipaa?output_format=rmap)",
       "HL7 v2 / CDA -> FHIR R4 (ai/hl7-convert)",
       "X12 837 -> PDF claim forms (claims-to-pdf)" >>

compliance_gates ==
    [gate1_input_validation |-> "Validates X12 input before conversion (5010 rules)",
     gate5_output_validation |-> "Re-validates generated X12 output before returning"]

\* if not result.get("_error"): manifest[key] = result
manifest_with(m, key, result) ==
    IF ~IsError(result) THEN (key :> result) @@ m ELSE m

list_supported_formats_result(m) ==
    build_response("APPROVED", "Capability manifest retrieved.",
        Some(("conversion_paths" :> conversion_paths) @@
             ("compliance_gates" :> compliance_gates) @@ m),
        None, None, None, None)

list_supported_formats ==
    \/ Begin("list_supported_formats", Args("", None, FALSE, "auto", None, None),
             get_request(endpoints[1][2]), "get")
    \/ /\ tool = "list_supported_formats"
       /\ pc = "get"
       /\ \E o \in Outcomes(SupportedBodies) :
            LET i == Len(requests)
                r == get(o, endpoints[i][2])
            IN /\ results' = Append(results, r)
               /\ exchanges' = Append(exchanges, o)
               /\ IF Crashes(r)
                  THEN Throw /\ UNCHANGED <<requests, manifest>>
                  ELSE /\ manifest' = manifest_with(manifest, endpoints[i][1], r.d)
                       /\ IF i < Len(endpoints)
                          THEN Continue(get_request(endpoints[i + 1][2]), "get")
                          ELSE /\ Return(list_supported_formats_result(manifest'))
                               /\ UNCHANGED requests
       /\ UNCHANGED <<tool, args, ncalls, blocked, gate5, x12_output>>

(***************************************************************************)
(* The shared client and an invocation's locals                            *)
(***************************************************************************)
\* REQUEST_TIMEOUT = int(os.environ.get("REQUEST_TIMEOUT", "120"))
REQUEST_TIMEOUT == 120

\* client = RedixAPIClient(): __init__ with the configuration's defaults.
RedixAPIClient ==
    [base_url |-> "http://localhost:8080",
     api_key |-> "demo-key-12345",
     timeout |-> REQUEST_TIMEOUT]

\* The locals of one invocation: where it stands, the tool and its arguments,
\* what it put on the wire, the exchanges and adapter results it got, its record.
Call(at, t, a, sent, exs, res, record) ==
    [pc |-> at, tool |-> t, args |-> a, sent |-> sent, exchanges |-> exs,
     results |-> res, ret |-> record]

IdleCall == Call("idle", "", Args("", None, FALSE, "auto", None, None),
                 <<>>, <<>>, <<>>, None)

\* No function has been applied yet.
NoProbe == [op |-> "none"]

(***************************************************************************)
(* The specification                                                       *)
(***************************************************************************)
Init ==
    /\ pc = "idle"
    /\ tool = ""
    /\ args = Args("", None, FALSE, "auto", None, None)
    /\ requests = <<>>
    /\ results = <<>>
    /\ exchanges = <<>>
    /\ blocked = None
    /\ gate5 = None
    /\ ret = None
    /\ x12_output = ""
    /\ manifest = EmptyDict
    /\ nextId = 1
    /\ ncalls = 0
    /\ ids = <<>>
    /\ client = RedixAPIClient
    /\ calls = [p \in Procs |-> IdleCall]
    /\ probe = NoProbe

Next ==
    \/ validate_x12
    \/ convert_x12_to_fhir
    \/ convert_x12_to_rmap
    \/ convert_rmap_to_x12
    \/ convert_x12_to_database
    \/ generate_x12_from_database
    \/ convert_hl7_to_fhir
    \/ convert_cda_to_fhir
    \/ convert_fhir_to_x12
    \/ convert_fhir_to_rmap
    \/ generate_claim_pdf
    \/ list_supported_formats

Spec == Init /\ [][Next]_vars

(***************************************************************************)
(* What the remote did, read off the exchanges                             *)
(***************************************************************************)
OkObject(o) ==
    o.err = "none" /\ o.status = 200 /\ o.ctype = "application/json" /\ o.kind = "object"
FailedExchange(o) == o.err = "RequestError" \/ o.status >= 400
TransportFailed(o) == o.err = "RequestError"

BodyStatus(o) == GetD(o.obj, "validation_status", "UNKNOWN")
BodyHasErrors(o) == GetD(GetD(o.obj, "errors", EmptyDict), "has_errors", FALSE)
BodyHasWarnings(o) == GetD(GetD(o.obj, "errors", EmptyDict), "has_warnings", FALSE)
BodyWarnings(o) == GetD(o.obj, "warnings", <<>>)

ReportsErrors(o) == OkObject(o) /\ BodyHasErrors(o)
ReportsFailure(o) == OkObject(o) /\ (BodyStatus(o) = "FAILED" \/ BodyHasErrors(o))
WarningsOnly(o) ==
    /\ OkObject(o)
    /\ BodyStatus(o) = "WARNING" \/ BodyHasWarnings(o)
    /\ BodyStatus(o) # "FAILED"
    /\ ~BodyHasErrors(o)

X12InputTools == {"convert_x12_to_fhir", "convert_x12_to_rmap",
                  "convert_x12_to_database", "generate_claim_pdf"}
X12ProducingTools == {"convert_rmap_to_x12", "generate_x12_from_database",
                      "convert_fhir_to_x12"}

HasReturned == pc = "returned" /\ ret # None
ConversionCalls == { i \in 1..Len(requests) : requests[i].endpoint # VALIDATE_ENDPOINT }

\* The text an RMap-to-X12 response carries: the first key when non-empty,
\* otherwise the alternate key.
RmapGenerated(b) ==
    IF GetD(b, "x12_content", "") # "" THEN b["x12_content"]
    ELSE GetD(b, "hipaa_content", "")

(***************************************************************************)
(* C1: in every X12-input tool, under either strict_mode, a validation      *)
(* response that reports has_errors = true makes the tool return a BLOCKED  *)
(* record, and the conversion endpoint receives no call in that invocation. *)
(***************************************************************************)
C1_ErrorsBlockBeforeConversion ==
    (tool \in X12InputTools /\ Len(exchanges) >= 1 /\ ReportsErrors(exchanges[1]))
    => /\ HasReturned
       /\ ret[1].status = "BLOCKED"
       /\ ConversionCalls = {}

\* has_errors is reported although validation_status says PASSED, strict mode off.
C1_Witness ==
    /\ tool = "generate_claim_pdf"
    /\ ~args.strict_mode
    /\ Len(exchanges) = 1
    /\ ReportsErrors(exchanges[1])
    /\ BodyStatus(exchanges[1]) = "PASSED"
    /\ HasReturned
    /\ ret[1].status = "BLOCKED"

(***************************************************************************)
(* C2: on a validation response with warnings but no errors, Gate 1 returns *)
(* no verdict when strict_mode is false (the tool goes on to its conversion *)
(* call) and a BLOCKED record when strict_mode is true.                     *)
(***************************************************************************)
C2_WarningsBlockOnlyWhenStrict ==
    (tool \in X12InputTools /\ Len(exchanges) >= 1 /\ WarningsOnly(exchanges[1]))
    => IF args.strict_mode
       THEN blocked # None /\ blocked[1].status = "BLOCKED" /\ ret = blocked
       ELSE blocked = None /\ Len(requests) = 2

\* has_warnings is reported under validation_status PASSED, in strict mode.
C2_Witness ==
    /\ tool = "convert_x12_to_fhir"
    /\ args.strict_mode
    /\ Len(exchanges) = 1
    /\ WarningsOnly(exchanges[1])
    /\ BodyStatus(exchanges[1]) = "PASSED"
    /\ blocked # None
    /\ blocked[1].status = "BLOCKED"

(***************************************************************************)
(* C3: when convert_rmap_to_x12's conversion succeeds with non-empty X12    *)
(* and the re-validation reports FAILED or has_errors, the record returned  *)
(* is BLOCKED, its gate is gate5_output_validation and data.x12_content is  *)
(* the generated text.                                                     *)
(***************************************************************************)
C3_RejectedOutputIsAttached ==
    (/\ tool = "convert_rmap_to_x12"
     /\ Len(exchanges) = 2
     /\ OkObject(exchanges[1])
     /\ RmapGenerated(exchanges[1].obj) # ""
     /\ ReportsFailure(exchanges[2]))
    => /\ HasReturned
       /\ ret[1].status = "BLOCKED"
       /\ ret[1].gate = Some("gate5_output_validation")
       /\ "x12_content" \in DOMAIN ret[1].data
       /\ ret[1].data["x12_content"] = RmapGenerated(exchanges[1].obj)

C3_Witness ==
    /\ tool = "convert_rmap_to_x12"
    /\ Len(exchanges) = 2
    /\ OkObject(exchanges[1])
    /\ RmapGenerated(exchanges[1].obj) = "X12-B"
    /\ ReportsFailure(exchanges[2])
    /\ HasReturned
    /\ ret[1].data["x12_content"] = "X12-B"

(***************************************************************************)
(* C4: within one invocation the remote calls are issued one after another  *)
(* in the order input validation, conversion, output validation: the        *)
(* conversion call only after Gate 1's call completed with no verdict, the  *)
(* output validation only after the conversion call returned the X12 it     *)
(* validates, and no call after a step yielded a verdict or error record.   *)
(***************************************************************************)
C4_SequentialShortCircuit ==
    /\ Len(results) <= Len(requests)
    /\ Len(requests) <= Len(results) + 1
    /\ pc \in {"returned", "raised"} => Len(requests) = Len(results)
    /\ tool \in X12InputTools =>
         /\ Len(requests) <= 2
         /\ Len(requests) >= 1 => requests[1].endpoint = VALIDATE_ENDPOINT
         /\ Len(requests) = 2 =>
              /\ requests[2].endpoint # VALIDATE_ENDPOINT
              /\ Len(exchanges) >= 1
              /\ ~FailedExchange(exchanges[1])
              /\ ~ReportsFailure(exchanges[1])
              /\ blocked = None
         /\ blocked # None => Len(requests) = 1 /\ ret = blocked
    /\ tool \in X12ProducingTools =>
         /\ Len(requests) <= 2
         /\ Len(requests) >= 1 => requests[1].endpoint # VALIDATE_ENDPOINT
         /\ Len(requests) = 2 =>
              /\ requests[2].endpoint = VALIDATE_ENDPOINT
              /\ Len(exchanges) >= 1
              /\ ~FailedExchange(exchanges[1])
              /\ x12_output # ""
              /\ requests[2].json_body["content"] = x12_output
         /\ (Len(exchanges) >= 1 /\ FailedExchange(exchanges[1])) =>
              Len(requests) = 1 /\ HasReturned /\ ret[1].status = "ERROR"

\* A tool behind Gate 1 that was blocked after its single validation call, and
\* a producing tool that reached its output validation, are both reachable;
\* the witness is the latter, returned after two calls.
C4_Witness ==
    /\ tool = "convert_fhir_to_x12"
    /\ Len(requests) = 2
    /\ Len(results) = 2
    /\ HasReturned
    /\ ret[1].status = "APPROVED"

(***************************************************************************)
(* C5 as stated: for any operation, list_supported_formats and the tools    *)
(* behind the output gate included, a remote call that fails at transport   *)
(* level (status code 0) gives a record with status ERROR and empty data.   *)
(***************************************************************************)
C5_TransportFailureEmptyError ==
    (HasReturned /\ \E i \in 1..Len(exchanges) : TransportFailed(exchanges[i]))
    => ret[1].status = "ERROR" /\ ret[1].data = EmptyDict

(***************************************************************************)
(* C5 amended: for every operation but list_supported_formats, a remote     *)
(* call that fails at transport level gives a record with status ERROR;     *)
(* its data is empty, except that when the failed call is the output gate's *)
(* validation call data holds exactly x12_content, the generated text.      *)
(* list_supported_formats returns APPROVED with the failed lookups omitted. *)
(***************************************************************************)
C5_TransportFailure ==
    (HasReturned /\ \E i \in 1..Len(exchanges) : TransportFailed(exchanges[i]))
    => IF tool = "list_supported_formats"
       THEN /\ ret[1].status = "APPROVED"
            /\ \A i \in 1..Len(exchanges) :
                 TransportFailed(exchanges[i]) => endpoints[i][1] \notin DOMAIN ret[1].data
       ELSE /\ ret[1].status = "ERROR"
            /\ IF tool \in X12ProducingTools /\ Len(exchanges) = 2
               THEN ret[1].data = ("x12_content" :> requests[2].json_body["content"])
               ELSE ret[1].data = EmptyDict

\* The output gate's validation call fails at transport level after a
\* conversion that produced X12.
C5_Witness ==
    /\ tool = "convert_rmap_to_x12"
    /\ Len(exchanges) = 2
    /\ TransportFailed(exchanges[2])
    /\ HasReturned
    /\ ret[1].status = "ERROR"
    /\ ret[1].data = ("x12_content" :> "X12-A")

(***************************************************************************)
(* C6: every failure mode of a remote call ends in a returned record and    *)
(* never in an exception: the adapter returns a result for every outcome of *)
(* the exchange (error status, connection failure, timeout, undecodable     *)
(* JSON under a JSON content type, a JSON array) and the tool returns a     *)
(* record.                                                                 *)
(***************************************************************************)
C6_NoExceptionEscapes ==
    /\ \A i \in 1..Len(results) : ~results[i].raised
    /\ pc # "raised"

(***************************************************************************)
(* C7: in every conversion tool, a conversion that succeeds with a          *)
(* non-empty warnings list (no gate blocking) gives a record with status    *)
(* APPROVED_WITH_CONDITIONS whose warnings field carries the list; APPROVED *)
(* is returned only when the conversion response reports no warnings.       *)
(***************************************************************************)
ConversionTools == X12InputTools \cup X12ProducingTools \cup
    {"convert_hl7_to_fhir", "convert_cda_to_fhir", "convert_fhir_to_rmap"}
ConvIndex == IF tool \in X12InputTools THEN 2 ELSE 1

C7_WarningsSurface ==
    (/\ HasReturned
     /\ tool \in ConversionTools
     /\ ret[1].status \in {"APPROVED", "APPROVED_WITH_CONDITIONS"})
    => LET w == BodyWarnings(exchanges[ConvIndex])
       IN /\ w # <<>> => ret[1].status = "APPROVED_WITH_CONDITIONS" /\ ret[1].warnings = w
          /\ ret[1].status = "APPROVED" => w = <<>>

(***************************************************************************)
(* C8: every record a tool returns has a non-empty ruling, a status among   *)
(* the four of the enum, and a transaction_id that no other record returned *)
(* in the same run of sequential calls carries.                            *)
(***************************************************************************)
Statuses == {"APPROVED", "APPROVED_WITH_CONDITIONS", "BLOCKED", "ERROR"}

C8_RecordWellFormed ==
    /\ HasReturned =>
         /\ ret[1].redix_ruling # ""
         /\ ret[1].status \in Statuses
         /\ ids[Len(ids)] = ret[1].transaction_id
    /\ \A i, j \in 1..Len(ids) : i # j => ids[i] # ids[j]

\* The second record of a run, returned by a gate after the first came from a
\* conversion.
C8_Witness ==
    /\ Len(ids) = 2
    /\ HasReturned
    /\ ret[1].gate = Some("gate1_input_validation")
    /\ ret[1].transaction_id # ids[1]

(***************************************************************************)
(* C9: in every X12-producing tool, when the output gate raises no          *)
(* objection the record's data.x12_content is exactly the content sent to   *)
(* the validation endpoint; and whenever convert_rmap_to_x12 returns a      *)
(* status other than ERROR, data.x12_content is present and non-empty.      *)
(***************************************************************************)
C9_ValidatedContentReturned ==
    /\ (/\ tool \in X12ProducingTools
        /\ HasReturned
        /\ Len(exchanges) = 2
        /\ gate5 = None)
       => /\ "x12_content" \in DOMAIN ret[1].data
          /\ ret[1].data["x12_content"] = requests[2].json_body["content"]
    /\ (tool = "convert_rmap_to_x12" /\ HasReturned /\ ret[1].status # "ERROR")
       => /\ "x12_content" \in DOMAIN ret[1].data
          /\ ret[1].data["x12_content"] # ""

\* The text came from the alternate key, was validated, and is returned.
C9_Witness ==
    /\ tool = "convert_rmap_to_x12"
    /\ HasReturned
    /\ gate5 = None
    /\ Len(exchanges) = 2
    /\ requests[2].json_body["content"] = "X12-B"
    /\ ret[1].status = "APPROVED_WITH_CONDITIONS"
    /\ ret[1].data["x12_content"] = "X12-B"

(***************************************************************************)
(* C10: convert_rmap_to_x12 takes the generated text from x12_content when  *)
(* it is non-empty, otherwise from hipaa_content; when both are missing or  *)
(* empty it returns ERROR, makes no output-validation call and so never     *)
(* returns APPROVED or APPROVED_WITH_CONDITIONS.                            *)
(***************************************************************************)
C10_OutputKeyPreference ==
    (/\ tool = "convert_rmap_to_x12"
     /\ Len(exchanges) >= 1
     /\ ~FailedExchange(exchanges[1])
     /\ ~Crashes(results[1]))
    => LET first == GetD(exchanges[1].obj, "x12_content", "")
           alternate == GetD(exchanges[1].obj, "hipaa_content", "")
       IN IF first # ""
          THEN x12_output = first /\ requests[2].json_body["content"] = first
          ELSE IF alternate # ""
          THEN x12_output = alternate /\ requests[2].json_body["content"] = alternate
          ELSE /\ HasReturned
               /\ ret[1].status = "ERROR"
               /\ Len(requests) = 1

\* Both keys are present: the first is empty, the alternate holds the text.
C10_Witness ==
    /\ tool = "convert_rmap_to_x12"
    /\ Len(exchanges) >= 1
    /\ OkObject(exchanges[1])
    /\ Get(exchanges[1].obj, "x12_content") = Some("")
    /\ Get(exchanges[1].obj, "hipaa_content") = Some("X12-B")
    /\ x12_output = "X12-B"

(***************************************************************************)
(* C11: whenever convert_x12_to_fhir, convert_x12_to_rmap,                  *)
(* convert_x12_to_database or generate_claim_pdf returns APPROVED or        *)
(* APPROVED_WITH_CONDITIONS, its payload key (fhir_bundle, rmap_content,    *)
(* session_id, pdf_files) is in data with a non-empty value, and the        *)
(* conversion response carried that output.                                *)
(***************************************************************************)
Approved == {"APPROVED", "APPROVED_WITH_CONDITIONS"}

PayloadInData(t, data) ==
    CASE t = "convert_x12_to_fhir" ->
           "fhir_bundle" \in DOMAIN data /\ DOMAIN data["fhir_bundle"] # {}
      [] t = "convert_x12_to_rmap" ->
           "rmap_content" \in DOMAIN data /\ TruthyStr(data["rmap_content"])
      [] t = "convert_x12_to_database" ->
           "session_id" \in DOMAIN data /\ TruthyStr(data["session_id"])
      [] OTHER ->
           "pdf_files" \in DOMAIN data /\ data["pdf_files"] # <<>>

PayloadInResponse(t, o) ==
    /\ OkObject(o)
    /\ CASE t = "convert_x12_to_fhir" ->
              \/ TruthyDict(Get(o.obj, "fhir_bundle"))
              \/ TruthyDict(Get(o.obj, "fhir_output"))
         [] t = "convert_x12_to_rmap" -> TruthyStr(Get(o.obj, "rmap_content"))
         [] t = "convert_x12_to_database" -> TruthyStr(Get(o.obj, "session_id"))
         [] OTHER -> TruthyList(Get(o.obj, "pdf_files"))

C11_ApprovedCarriesPayload ==
    (HasReturned /\ tool \in X12InputTools /\ ret[1].status \in Approved)
    => /\ PayloadInData(tool, ret[1].data)
       /\ PayloadInResponse(tool, exchanges[2])

(***************************************************************************)
(* C12: when the caller omits the transaction type (generate_claim_pdf:     *)
(* claim_type left at "auto"), no remote call of the invocation, gate or    *)
(* conversion, carries a transaction_type field; when a type is supplied,   *)
(* what is sent is the supplied value or its image under the short-code     *)
(* lookup.                                                                 *)
(***************************************************************************)
CallerOmitsType ==
    IF tool = "generate_claim_pdf"
    THEN args.claim_type = "auto"
    ELSE ~TruthyStr(args.transaction_type)

SuppliedType ==
    IF tool = "generate_claim_pdf" THEN Some(args.claim_type) ELSE args.transaction_type

\* The transaction_type values a request carries, in its body, form or query.
SentTypes(r) ==
    {r.json_body[k] : k \in DOMAIN r.json_body \cap {"transaction_type"}}
    \cup {r.data[k] : k \in DOMAIN r.data \cap {"transaction_type"}}
    \cup {r.params[k] : k \in DOMAIN r.params \cap {"transaction_type"}}

C12_NoLocalTypeGuess ==
    \A i \in 1..Len(requests) :
        IF CallerOmitsType
        THEN SentTypes(requests[i]) = {}
        ELSE SentTypes(requests[i]) \subseteq
                {SuppliedType[1], _fhir_tx(SuppliedType)[1]}

(***************************************************************************)
(* C13: list_supported_formats never calls the validation endpoint, makes   *)
(* its four GET lookups whatever fails among them, and for every subset of  *)
(* failed lookups returns APPROVED with a manifest holding exactly the      *)
(* lookups that succeeded and a non-empty conversion_paths entry.           *)
(***************************************************************************)
C13_PartialManifest ==
    tool = "list_supported_formats" =>
      /\ \A i \in 1..Len(requests) :
           /\ requests[i].method = "get"
           /\ requests[i].endpoint = endpoints[i][2]
           /\ requests[i].endpoint # VALIDATE_ENDPOINT
      /\ pc \in {"get", "returned"}
      /\ HasReturned =>
           /\ Len(requests) = Len(endpoints)
           /\ ret[1].status = "APPROVED"
           /\ \A i \in 1..Len(endpoints) :
                endpoints[i][1] \in DOMAIN ret[1].data <=> ~FailedExchange(exchanges[i])
           /\ "conversion_paths" \in DOMAIN ret[1].data
           /\ ret[1].data["conversion_paths"] # <<>>

(***************************************************************************)
(* C14: when the fhir_bundle text given to convert_fhir_to_x12 or           *)
(* convert_fhir_to_rmap cannot be parsed, the tool returns status ERROR and *)
(* the invocation makes no remote call.                                     *)
(***************************************************************************)
C14_UnparseableBundleNoCall ==
    (tool \in FhirTools /\ args.content = InvalidFhirText)
    => /\ HasReturned
       /\ ret[1].status = "ERROR"
       /\ requests = <<>>
       /\ exchanges = <<>>

\* convert_fhir_to_rmap was called with text that is not JSON and has returned.
C14_Witness ==
    /\ tool = "convert_fhir_to_rmap"
    /\ args.content = InvalidFhirText
    /\ HasReturned
    /\ ret[1].status = "ERROR"
    /\ ret[1].redix_ruling = "Invalid JSON in fhir_bundle: "
    /\ Len(requests) = 0

(***************************************************************************)
(* C15: validate_x12 returns BLOCKED or ERROR, never APPROVED or            *)
(* APPROVED_WITH_CONDITIONS, whenever its validation call gives an error    *)
(* marker or the response reports validation_status FAILED or has_errors.   *)
(***************************************************************************)
C15_FailedValidationNeverApproved ==
    (/\ tool = "validate_x12"
     /\ Len(exchanges) = 1
     /\ FailedExchange(exchanges[1]) \/ ReportsFailure(exchanges[1]))
    => /\ HasReturned
       /\ ret[1].status \in {"BLOCKED", "ERROR"}
       /\ FailedExchange(exchanges[1]) => ret[1].status = "ERROR"
       /\ ReportsFailure(exchanges[1]) => ret[1].status = "BLOCKED"

\* The response says PASSED yet its errors object has has_errors set.
C15_Witness ==
    /\ tool = "validate_x12"
    /\ Len(exchanges) = 1
    /\ OkObject(exchanges[1])
    /\ BodyStatus(exchanges[1]) = "PASSED"
    /\ BodyHasErrors(exchanges[1])
    /\ HasReturned
    /\ ret[1].status = "BLOCKED"
    /\ ret[1].gate = Some("validation")

(***************************************************************************)
(* C16: validate_x12 returns APPROVED_WITH_CONDITIONS whenever the          *)
(* validation response reports warnings only (validation_status WARNING or  *)
(* has_warnings, and no errors), and returns APPROVED only when the         *)
(* response reports neither errors nor warnings.                            *)
(***************************************************************************)
C16_WarningsOnlyIsConditional ==
    (tool = "validate_x12" /\ HasReturned /\ OkObject(exchanges[1]))
    => /\ (WarningsOnly(exchanges[1]) /\ ~ReportsFailure(exchanges[1]))
            => ret[1].status = "APPROVED_WITH_CONDITIONS"
       /\ ret[1].status = "APPROVED"
            => /\ ~ReportsFailure(exchanges[1])
               /\ BodyStatus(exchanges[1]) # "WARNING"
               /\ ~BodyHasWarnings(exchanges[1])

(***************************************************************************)
(* C17: whatever the validation response, a gate returns either None or a   *)
(* complete record whose status is BLOCKED or ERROR, never an approving     *)
(* one; gate5_output_validation returns None for every response without     *)
(* FAILED / has_errors, responses that report warnings included.            *)
(***************************************************************************)
RecordFields == {"status", "redix_ruling", "gate", "transaction_id",
                 "data", "errors", "warnings"}

IsVerdict(v, name) ==
    \/ v = None
    \/ /\ DOMAIN v[1] = RecordFields
       /\ v[1].status \in {"BLOCKED", "ERROR"}
       /\ v[1].redix_ruling # ""
       /\ v[1].gate = Some(name)

MaxRequests(t) ==
    IF t = "list_supported_formats" THEN Len(endpoints)
    ELSE IF t \in X12InputTools \cup X12ProducingTools THEN 2
    ELSE 1

OneRequestPerStep ==
    /\ \A i, j \in 1..Len(requests) :
         i # j => requests[i].endpoint # requests[j].endpoint
    /\ Len(requests) <= Len(exchanges) + 1
    /\ Len(requests) <= MaxRequests(tool)

FailureEndsInvocation(i) ==
    /\ i = Len(requests)
    /\ HasReturned
    /\ ret[1].status = "ERROR"

C18_NoRetryFailureIsError ==
    /\ OneRequestPerStep
    /\ \A i \in 1..Len(exchanges) :
         FailedExchange(exchanges[i]) => FailureEndsInvocation(i)

(***************************************************************************)
(* C18 amended: no remote call is retried and each pipeline step issues at  *)
(* most one request; in every tool but list_supported_formats a failed      *)
(* request ends the invocation with an ERROR record and no further request; *)
(* list_supported_formats leaves the failed lookup out and goes on to its   *)
(* next lookup, never repeating one.                                        *)
(***************************************************************************)
C18_NoRetry ==
    /\ OneRequestPerStep
    /\ \A i \in 1..Len(exchanges) :
         FailedExchange(exchanges[i]) =>
           IF tool = "list_supported_formats"
           THEN HasReturned => endpoints[i][1] \notin DOMAIN ret[1].data
           ELSE FailureEndsInvocation(i)

\* The conversion call fails after the input gate passed: two requests, no third.
C18_Witness ==
    /\ tool = "convert_x12_to_rmap"
    /\ Len(exchanges) = 2
    /\ exchanges[2].status = 500
    /\ Len(requests) = 2
    /\ requests[1].endpoint = VALIDATE_ENDPOINT
    /\ requests[2].endpoint = "/api/v2/hipaa-to-rmap/convert"
    /\ HasReturned
    /\ ret[1].status = "ERROR"

(***************************************************************************)
(* Concurrent invocations: each holds its own locals; the adapter reads    *)
(* the shared client when it issues a request.                             *)
(***************************************************************************)
\* url = f"{self.base_url}{endpoint}"
_url(self, endpoint) == self.base_url \o endpoint

\* RedixAPIClient._headers
_headers(self) ==
    ("Accept" :> "application/json") @@ ("X-Submission-Method" :> "mcp") @@
    (IF self.api_key # "" THEN ("X-API-Key" :> self.api_key) ELSE EmptyDict)

\* What an adapter call puts on the wire for a request.
Wire(self, req) ==
    [url |-> _url(self, req.endpoint), headers |-> _headers(self),
     timeout |-> self.timeout, request |-> req]

\* Mutant: the adapter keeps the url it built in self.base_url.
after_call_rebased(self, endpoint) == [self EXCEPT !.base_url = _url(self, endpoint)]

\* The client after an adapter call: post_form, post_json and get assign
\* nothing on self (url, resp and the httpx client are locals).
after_call(self, endpoint) == self

\* A tool's code from its entry to its first await.
StartOf(t, a, self) ==
    IF t \in FhirTools /\ json_loads(a.content) = None
    THEN Call("returned", t, a, <<>>, <<>>, <<>>,
              Some(build_response("ERROR", "Invalid JSON in fhir_bundle: ",
                                  None, None, None, None, None)))
    ELSE IF t = "validate_x12"
    THEN Call("validate", t, a,
              <<Wire(self, validate_request(a.content, a.transaction_type))>>,
              <<>>, <<>>, None)
    ELSE IF t \in Gate1Tools
    THEN Call("gate1", t, a,
              <<Wire(self, validate_request(a.content, Gate1Tx(t, a)))>>,
              <<>>, <<>>, None)
    ELSE Call("convert", t, a, <<Wire(self, ConvRequest(t, a))>>, <<>>, <<>>, None)

\* A tool's code from the await that exchange o completes to its next await
\* or its return.
StepOf(c, o, self) ==
    LET t == c.tool
        a == c.args
        endpoint == c.sent[Len(c.sent)].request.endpoint
        r == IF c.pc = "convert" THEN ConvCall(t, o, endpoint) ELSE post_json(o, endpoint)
        exs == Append(c.exchanges, o)
        res == Append(c.results, r)
        Done(record) == Call("returned", t, a, c.sent, exs, res, Some(record))
        More(at, req) == Call(at, t, a, Append(c.sent, Wire(self, req)), exs, res, None)
    IN IF Crashes(r)
       THEN Call("raised", t, a, c.sent, exs, res, None)
       ELSE CASE c.pc = "validate" ->
                   Done(validate_x12_result(r.d, a.transaction_type))
              [] c.pc = "gate1" ->
                   LET verdict == gate1_input_validation(r.d, a.strict_mode)
                   IN IF Objects(verdict)
                      THEN Done(verdict[1])
                      ELSE More("convert", ConvRequest(t, a))
              [] c.pc = "convert" ->
                   IF t \notin Gate5Tools
                   THEN Done(ToolResult(t, r.d, a))
                   ELSE IF PreGateError(t, r.d) # None
                   THEN Done(PreGateError(t, r.d)[1])
                   ELSE More("gate5", validate_request(X12Output(t, r.d), Gate5Tx(t, a)))
              [] OTHER ->
                   LET verdict == gate5_output_validation(r.d, t)
                       x12 == X12Output(t, c.results[1].d)
                   IN IF Objects(verdict)
                      THEN Done(attach_x12(verdict[1], x12))
                      ELSE Done(Gate5Result(t, c.results[1].d, x12, a))

\* The tools, arguments and remote outcomes the concurrent invocations draw from.
ConcTools == {"validate_x12", "convert_x12_to_rmap", "convert_rmap_to_x12"}
ConcArgs(t) == { a \in ToolArgs(t) : a.content = "ISA*A" /\ a.transaction_type = None }

ConcValidationOutcomes ==
    { o \in Outcomes(ValidationBodies) :
        \/ o.err = "RequestError"
        \/ o.kind = "invalid"
        \/ /\ o.kind = "object"
           /\ DOMAIN o.obj = {"validation_status", "errors"}
           /\ \/ BodyStatus(o) = "PASSED" /\ ~BodyHasErrors(o) /\ ~BodyHasWarnings(o)
              \/ BodyStatus(o) = "WARNING" /\ ~BodyHasErrors(o) /\ BodyHasWarnings(o)
              \/ BodyStatus(o) = "FAILED" /\ BodyHasErrors(o) /\ ~BodyHasWarnings(o) }

ConcConvOutcomes(t) ==
    { o \in Outcomes(ConvBodies(t)) :
        \/ o.status = 500
        \/ /\ o.kind = "object"
           /\ Cardinality(DOMAIN o.obj) = 3
           /\ BodyWarnings(o) # <<>> }

ConcOutcomes(c) ==
    IF c.pc = "convert" THEN ConcConvOutcomes(c.tool) ELSE ConcValidationOutcomes

\* A tool is called while others are in flight.
Invoke(p) ==
    /\ calls[p].pc = "idle"
    /\ \E t \in ConcTools : \E a \in ConcArgs(t) :
         calls' = [calls EXCEPT ![p] = StartOf(t, a, client)]
    /\ nextId' = IF calls'[p].pc = "returned" THEN nextId + 1 ELSE nextId
    /\ UNCHANGED <<probe, client, pc, tool, args, requests, exchanges, results, blocked,
                   gate5, x12_output, manifest, ret, ncalls, ids>>

\* The pending remote call of one invocation completes; its code runs on.
Respond(p) ==
    /\ calls[p].pc \in {"validate", "gate1", "convert", "gate5"}
    /\ \E o \in ConcOutcomes(calls[p]) :
         calls' = [calls EXCEPT ![p] = StepOf(calls[p], o, client)]
    /\ client' = after_call(client,
                            calls[p].sent[Len(calls[p].sent)].request.endpoint)
    /\ nextId' = IF calls'[p].pc = "returned" THEN nextId + 1 ELSE nextId
    /\ UNCHANGED <<probe, pc, tool, args, requests, exchanges, results, blocked,
                   gate5, x12_output, manifest, ret, ncalls, ids>>

Concurrently == \E p \in Procs : Invoke(p) \/ Respond(p)

Concurrent == Init /\ [][Concurrently]_vars

\* The same invocation run alone: its code replayed over the same exchanges
\* with the client as constructed.
RECURSIVE Replay(_, _, _)
Replay(c, exs, self) ==
    IF exs = <<>> \/ c.pc \in {"returned", "raised"}
    THEN c
    ELSE Replay(StepOf(c, Head(exs), self), Tail(exs), self)

RunAlone(t, a, exs) == Replay(StartOf(t, a, RedixAPIClient), exs, RedixAPIClient)

\* A record without its correlation token.
Observed(record) ==
    [status |-> record.status, gate |-> record.gate, data |-> record.data,
     errors |-> record.errors, warnings |-> record.warnings,
     redix_ruling |-> record.redix_ruling]

SameAsAlone(c) ==
    LET alone == RunAlone(c.tool, c.args, c.exchanges)
    IN /\ alone.pc = c.pc
       /\ alone.sent = c.sent
       /\ alone.results = c.results
       /\ c.pc = "returned" => Observed(alone.ret[1]) = Observed(c.ret[1])

\* Under Spec, where one invocation runs at a time, RunAlone is that run.
RunAloneIsSequential ==
    (pc # "idle" /\ tool # "list_supported_formats")
    => LET alone == RunAlone(tool, args, exchanges)
       IN /\ alone.pc = pc
          /\ Len(alone.sent) = Len(requests)
          /\ \A i \in 1..Len(requests) : alone.sent[i].request = requests[i]
          /\ alone.results = results
          /\ pc = "returned" => Observed(alone.ret[1]) = Observed(ret[1])

Running == pc \in {"validate", "gate1", "convert", "gate5", "get"}

CallCompletes == Running /\ Next

FairSpec == Spec /\ WF_vars(CallCompletes)

\* Under FairSpec every invocation ends: it returns a record or an exception
\* leaves it.
InvocationEnds ==
    \A k \in 1..MaxCalls :
        [](Running /\ ncalls = k => <>(pc \in {"returned", "raised"} /\ ncalls = k))

(***************************************************************************)
(* C20: every tool invocation eventually returns a record: each remote     *)
(* call ends in a response, an HTTP error or a timeout reported as an      *)
(* error marker, and an invocation makes a bounded number of calls.        *)
(***************************************************************************)
C20_EveryInvocationReturns ==
    \A k \in 1..MaxCalls :
        [](Running /\ ncalls = k => <>(HasReturned /\ ncalls = k))

(***************************************************************************)
(* Pure: a function of the code applied to inputs drawn from bounded sets  *)
(***************************************************************************)
\* gate5_output_validation as called: its validation call, then its verdict.
Gate5Call(o, source_tool) ==
    LET r == post_json(o, VALIDATE_ENDPOINT)
    IN IF Crashes(r)
       THEN [raised |-> TRUE, verdict |-> None]
       ELSE [raised |-> FALSE, verdict |-> gate5_output_validation(r.d, source_tool)]

\* The gate is called on generated content; the remote answers.
Gate5Once ==
    /\ probe = NoProbe
    /\ \E x12 \in {"X12-A", "X12-B"}, tx \in TxInputs, source_tool \in Gate5Tools,
          o \in Outcomes(ValidationBodies) :
         probe' = [op |-> "gate5_output_validation",
                   request |-> validate_request(x12, tx),
                   source_tool |-> source_tool,
                   response |-> o,
                   outcomes |-> <<Gate5Call(o, source_tool)>>]
    /\ nextId' = IF probe'.outcomes[1].verdict # None THEN nextId + 1 ELSE nextId
    /\ UNCHANGED <<pc, tool, args, requests, exchanges, results, blocked, gate5,
                   x12_output, manifest, ret, ncalls, ids, client, calls>>

\* The gate is called again with the same arguments; the remote answers the same.
Gate5Again ==
    /\ probe.op = "gate5_output_validation"
    /\ Len(probe.outcomes) = 1
    /\ probe' = [probe EXCEPT
                   !.outcomes = Append(@, Gate5Call(probe.response, probe.source_tool))]
    /\ nextId' = IF probe'.outcomes[2].verdict # None THEN nextId + 1 ELSE nextId
    /\ UNCHANGED <<pc, tool, args, requests, exchanges, results, blocked, gate5,
                   x12_output, manifest, ret, ncalls, ids, client, calls>>

\* What a remote server may put in a JSON object body: the validation bodies,
\* and bodies that use the key "_error" themselves.
UpstreamBodies ==
    ValidationBodies \cup
    { [_error |-> TRUE, message |-> "m"], [_error |-> FALSE, message |-> "m"] }

AdapterMethods == {"post_form", "post_json", "get"}

\* One adapter method is called on an endpoint; the remote answers.
AdapterCall ==
    /\ probe = NoProbe
    /\ \E method \in AdapterMethods, o \in Outcomes(UpstreamBodies) :
         probe' = [op |-> "adapter",
                   method |-> method,
                   response |-> o,
                   result |-> CASE method = "post_form" -> post_form(o, VALIDATE_ENDPOINT)
                                [] method = "post_json" -> post_json(o, VALIDATE_ENDPOINT)
                                [] OTHER -> get(o, VALIDATE_ENDPOINT)]
    /\ UNCHANGED <<pc, tool, args, requests, exchanges, results, blocked, gate5,
                   x12_output, manifest, ret, nextId, ncalls, ids, client, calls>>

\* The codes a caller may pass as transaction_type.
TxCodes ==
    {None, Some("")} \cup
    { Some(c) : c \in DOMAIN _FHIR_TX_MAP \cup
                      {"837P", "837I", "837D", "837-Professional", "278-REQUEST",
                       "XYZ", "xyz", "999"} }

\* _fhir_tx is applied to a code.
FhirTx ==
    /\ probe = NoProbe
    /\ \E c \in TxCodes :
         probe' = [op |-> "_fhir_tx", transaction_type |-> c, outcomes |-> <<_fhir_tx(c)>>]
    /\ UNCHANGED <<pc, tool, args, requests, exchanges, results, blocked, gate5,
                   x12_output, manifest, ret, nextId, ncalls, ids, client, calls>>

\* _fhir_tx is applied to what it returned.
FhirTxAgain ==
    /\ probe.op = "_fhir_tx"
    /\ Len(probe.outcomes) = 1
    /\ probe' = [probe EXCEPT !.outcomes = Append(@, _fhir_tx(probe.outcomes[1]))]
    /\ UNCHANGED <<pc, tool, args, requests, exchanges, results, blocked, gate5,
                   x12_output, manifest, ret, nextId, ncalls, ids, client, calls>>

PureNext ==
    \/ Gate5Once
    \/ Gate5Again
    \/ AdapterCall
    \/ FhirTx
    \/ FhirTxAgain

Pure == Init /\ [][PureNext]_vars

(***************************************************************************)
(* C21: gate5_output_validation is deterministic in its inputs and the     *)
(* remote response: two calls with the same content, transaction type and  *)
(* source label that get the same validation response give the same        *)
(* outcome, both None or records with the same status, gate, errors, data. *)
(***************************************************************************)
SameOutcome(first, second) ==
    /\ first.raised = second.raised
    /\ (first.verdict = None) = (second.verdict = None)
    /\ first.verdict # None =>
         /\ first.verdict[1].status = second.verdict[1].status
         /\ first.verdict[1].gate = second.verdict[1].gate
         /\ first.verdict[1].errors = second.verdict[1].errors
         /\ first.verdict[1].data = second.verdict[1].data

C22_ErrorMarkerIffExchangeFailed ==
    (probe.op = "adapter" /\ ~probe.result.raised /\ probe.result.type = "dict")
    => (IsError(probe.result.d) <=> FailedExchange(probe.response))

(***************************************************************************)
(* C23: _fhir_tx is a total lookup with pass-through default: every code   *)
(* in the table maps to its canonical name, every non-empty code not in    *)
(* the table is returned unchanged, and _fhir_tx(_fhir_tx(c)) =            *)
(* _fhir_tx(c).  C23_LookupExact states it with "in the table" meaning the *)
(* code as given; C23_LookupUpToCase with the code's lower-case form.      *)
(***************************************************************************)
FhirTxIdempotent == Len(probe.outcomes) = 2 => probe.outcomes[2] = probe.outcomes[1]

C23_LookupExact ==
    probe.op = "_fhir_tx" =>
      LET c == probe.transaction_type
          r == probe.outcomes[1]
      IN /\ (TruthyStr(c) /\ c[1] \in DOMAIN _FHIR_TX_MAP) => r = Some(_FHIR_TX_MAP[c[1]])
         /\ (TruthyStr(c) /\ c[1] \notin DOMAIN _FHIR_TX_MAP) => r = c
         /\ FhirTxIdempotent

C23_LookupUpToCase ==
    probe.op = "_fhir_tx" =>
      LET c == probe.transaction_type
          r == probe.outcomes[1]
      IN /\ (TruthyStr(c) /\ lower(c[1]) \in DOMAIN _FHIR_TX_MAP)
              => r = Some(_FHIR_TX_MAP[lower(c[1])])
         /\ (TruthyStr(c) /\ lower(c[1]) \notin DOMAIN _FHIR_TX_MAP) => r = c
         /\ FhirTxIdempotent

\* An upper-case short code was mapped, and mapping the result again kept it.
C23_Witness ==
    /\ probe.op = "_fhir_tx"
    /\ probe.transaction_type = Some("837P")
    /\ probe.outcomes = <<Some("837-professional"), Some("837-professional")>>


(***************************************************************************)
(* C24: a DecisionRecord is constructed once per invocation and no field   *)
(* of it is changed after construction: the record handed to the caller is *)
(* field-for-field the record as it was built, also when it is a gate's    *)
(* verdict.                                                                *)
(***************************************************************************)
C24_RecordReturnedAsBuilt ==
    HasReturned =>
      /\ blocked # None => ret = blocked
      /\ gate5 # None => ret = gate5


(***************************************************************************)
(* C25: gate5_output_validation returns a response (BLOCKED or             *)
(* APPROVED_WITH_CONDITIONS) whenever the generated X12 has issues,        *)
(* warnings as well as errors, and None only when the validation response  *)
(* reports neither errors nor warnings.                                    *)
(***************************************************************************)
C25_Gate5SpeaksOnWarnings ==
    (probe.op = "gate5_output_validation" /\ OkObject(probe.response))
    => LET verdict == probe.outcomes[1].verdict
           issues == ReportsFailure(probe.response) \/ WarningsOnly(probe.response)
       IN /\ issues => /\ verdict # None
                       /\ verdict[1].status \in {"APPROVED_WITH_CONDITIONS", "BLOCKED"}
          /\ verdict = None => ~issues

(***************************************************************************)
(* C26: a gate lets content through only on an affirmative verdict: gate1  *)
(* and gate5 return None only if the validation call returned a structured *)
(* result whose validation_status is PASSED or WARNING; status UNKNOWN, a  *)
(* missing validation_status or a raw-text response never counts as a      *)
(* pass.                                                                   *)
(***************************************************************************)
\* The validation calls of the invocation after which a gate returned None.
GatePassed ==
    { i \in 1..Len(exchanges) :
        /\ requests[i].endpoint = VALIDATE_ENDPOINT
        /\ ~Crashes(results[i])
        /\ \/ tool \in X12InputTools /\ i = 1 /\ blocked = None
           \/ tool \in X12ProducingTools /\ HasReturned /\ gate5 = None }

C26_GatePassIsAffirmative ==
    \A i \in GatePassed :
        /\ OkObject(exchanges[i])
        /\ "validation_status" \in DOMAIN exchanges[i].obj
        /\ exchanges[i].obj["validation_status"] \in {"PASSED", "WARNING"}


(***************************************************************************)
(* C27: no tool returns an APPROVED or APPROVED_WITH_CONDITIONS record     *)
(* carrying X12 in data.x12_content unless, earlier in the invocation, a   *)
(* validation call whose content was exactly that X12 completed            *)
(* successfully and reported neither FAILED nor has_errors.                *)
(***************************************************************************)
\* The validation calls of the invocation that were made on the text x12,
\* completed, and reported no failure.
ValidatedWithoutFailure(x12) ==
    { i \in 1..Len(exchanges) :
        /\ requests[i].endpoint = VALIDATE_ENDPOINT
        /\ requests[i].json_body["content"] = x12
        /\ ~FailedExchange(exchanges[i])
        /\ ~Crashes(results[i])
        /\ BodyStatus(exchanges[i]) # "FAILED"
        /\ ~BodyHasErrors(exchanges[i]) }

C27_ApprovedX12WasValidated ==
    (HasReturned /\ ret[1].status \in Approved /\ "x12_content" \in DOMAIN ret[1].data)
    => ValidatedWithoutFailure(ret[1].data["x12_content"]) # {}

\* Generated X12 was approved after its validation reported PASSED.
C27_Witness ==
    /\ HasReturned
    /\ tool = "generate_x12_from_database"
    /\ ret[1].status \in Approved
    /\ "x12_content" \in DOMAIN ret[1].data
    /\ ret[1].data["x12_content"] = "X12-A"
    /\ Len(exchanges) = 2
    /\ OkObject(exchanges[2])
    /\ BodyStatus(exchanges[2]) = "PASSED"


(***************************************************************************)
(* C28: validate_x12 and the input gate classify a validation response     *)
(* alike: validate_x12 returns APPROVED only if gate1_input_validation     *)
(* with strict_mode true returns None on that response, and returns        *)
(* BLOCKED exactly when gate1_input_validation with strict_mode false      *)
(* returns BLOCKED.                                                        *)
(***************************************************************************)
Gate1Blocks(result, strict_mode) ==
    LET verdict == gate1_input_validation(result, strict_mode)
    IN verdict # None /\ verdict[1].status = "BLOCKED"

C28_ValidateAgreesWithGate1 ==
    (tool = "validate_x12" /\ HasReturned)
    => /\ ret[1].status = "APPROVED"
            => gate1_input_validation(results[1].d, TRUE) = None
       /\ ret[1].status = "BLOCKED" <=> Gate1Blocks(results[1].d, FALSE)


(***************************************************************************)
(* C29: in every X12-input tool the content uploaded to the conversion     *)
(* endpoint is exactly the content the input gate validated, and the       *)
(* transaction type of the gate's validation call denotes the same type as *)
(* the one sent to the conversion call: both absent, or both the caller's  *)
(* value up to the short-code lookup.                                      *)
(***************************************************************************)
\* The type a conversion request carries: transaction_type, or claim_type.
ConvTypes(r) ==
    SentTypes(r) \cup {r.params[k] : k \in DOMAIN r.params \cap {"claim_type"}}

C29_GateAndConversionAgree ==
    (tool \in X12InputTools /\ Len(requests) >= 2)
    => /\ requests[2].file # None
       /\ requests[2].file[1].content = requests[1].json_body["content"]
       /\ \/ SentTypes(requests[1]) = {} /\ ConvTypes(requests[2]) = {}
          \/ /\ SentTypes(requests[1]) = {SuppliedType[1]}
             /\ ConvTypes(requests[2]) \in
                  {{SuppliedType[1]}, {_fhir_tx(SuppliedType)[1]}}

====
